---- MODULE Spec2Model ----
(***************************************************************************)
(* Model of beacon-chain/core/helpers/signing_root.go: ComputeSigningRoot, *)
(* ComputeDomain, domain and computeForkDataRoot.                          *)
(*                                                                         *)
(* Byte slices live in a heap (mem) and are passed by name, as Go passes   *)
(* slice headers: the configuration defaults and the callers' buffers are  *)
(* shared between all calls.  Several calls run concurrently, one source   *)
(* statement group at a time.                                              *)
(*                                                                         *)
(* ssz.HashTreeRoot is an external library.  It is modelled as an unknown  *)
(* deterministic function without collisions: the answer to an input is   *)
(* chosen the first time the input is hashed, an error or a root no other  *)
(* input has, and is remembered in engine from then on.  With an error it  *)
(* returns the zero root, as go-ssz does.                                  *)
(***************************************************************************)
EXTENDS Naturals, Sequences, FiniteSets, TLC

VARIABLES mem, engine, op, arg, pc, loc, ret, log

vars == <<mem, engine, op, arg, pc, loc, ret, log>>

----------------------------------------------------------------------------
(* Bounds *)

\* number of distinct inputs the hashing engine is asked about in one run
MaxEngineInputs == 3

----------------------------------------------------------------------------
(* Program constants *)

ForkVersionByteLength == 4
DomainByteLength == 4
RootLength == 32
DomainRootBytes == 28

----------------------------------------------------------------------------
(* Bytes *)

Rep(b, n) == [i \in 1..n |-> b]

\* a nil slice, and a nil error
NIL == "nil"
NilBytes == <<>>
NoError == "nil"

\* [32]byte{}
ZeroRoot == Rep(0, RootLength)

\* Go's builtin copy(dst, src): the first min(len(dst), len(src)) elements
copy(dst, src) ==
    [i \in 1..Len(dst) |-> IF i <= Len(src) THEN src[i] ELSE dst[i]]

----------------------------------------------------------------------------
(* The heap: configuration defaults and the callers' buffers *)

\* domain types callers pass
TypeA == <<1, 0, 0, 0>>
TypeB == <<2, 0, 0, 0>>
DomainTypes == {TypeA, TypeB}

\* roots the engine may answer with.  For a fork-data record: RootB differs
\* from RootA in bytes 28..31 only, RootC differs from both within bytes 0..27
RootA == [i \in 1..32 |-> i]
RootB == [i \in 1..32 |-> IF i <= 28 THEN i ELSE 100 + i]
RootC == [i \in 1..32 |-> IF i <= 28 THEN 50 + i ELSE i]
Roots == {RootA, RootB, RootC}
\* for an object, and for a signing-root container
ObjectRoots == {[i \in 1..32 |-> 60 + i], [i \in 1..32 |-> 70 + i]}
ContainerRoots == {[i \in 1..32 |-> 80 + i], [i \in 1..32 |-> 90 + i]}
Errors == {"ErrUnsupportedType"}

\* params.BeaconConfig(): the genesis fork version and 32 zero bytes
GenesisForkVersion == <<0, 0, 0, 0>>
ZeroHash == Rep(0, RootLength)

InitMem ==
    [s \in {"GenesisForkVersion", "ZeroHash", "fvShort", "domA", "domShort"} |->
        CASE s = "GenesisForkVersion" -> GenesisForkVersion
          [] s = "ZeroHash"           -> ZeroHash
          [] s = "fvShort"            -> <<1, 0, 0>>
          [] s = "domA"               -> TypeA \o SubSeq(RootA, 1, DomainRootBytes)
          [] s = "domShort"           -> <<9, 9>>]

\* what callers pass
ForkVersionArgs == {NIL, "GenesisForkVersion", "fvShort"}
GenesisRootArgs == {NIL, "ZeroHash"}
DomainArgs == {"domA", "domShort"}
Objects == {<<1>>, <<2>>}

\* the bytes a slice holds; a nil slice holds none
Bytes(s) == IF s = NIL THEN NilBytes ELSE mem[s]

----------------------------------------------------------------------------
(* The hashing engine *)

\* what is handed to ssz.HashTreeRoot
ObjectInput(object) == <<"Object", object, NilBytes>>
ForkData(version, root) == <<"ForkData", version, root>>
SigningRoot(objectRoot, dom) == <<"SigningRoot", objectRoot, dom>>

\* what ssz.HashTreeRoot may return for an input: a root and no error, or the
\* zero root and an error
Outcomes(input) ==
    [root : CASE input[1] = "ForkData" -> Roots
              [] input[1] = "Object" -> ObjectRoots
              [] OTHER -> ContainerRoots,
     err : {NoError}] \cup [root : {ZeroRoot}, err : Errors]

Known(input) == input \in DOMAIN engine

\* the engine is free of collisions: no root is the root of two inputs
Fresh(out) ==
    out.err # NoError \/ \A i \in DOMAIN engine : engine[i].root # out.root

\* the (root, err) pairs ssz.HashTreeRoot may return for input
HashTreeRoot(input) ==
    IF Known(input) THEN {engine[input]}
    ELSE {out \in Outcomes(input) : Fresh(out)}

Learn(input, out) == IF Known(input) THEN engine ELSE (input :> out) @@ engine

----------------------------------------------------------------------------
(* Calls *)

\* the concurrent callers
Procs == {"c1", "c2"}

NoArg ==
    [domainType |-> NilBytes, forkVersion |-> NIL,
     genesisValidatorsRoot |-> NIL, object |-> NilBytes, domain |-> NIL]
NoLoc ==
    [forkVersion |-> NIL, genesisValidatorsRoot |-> NIL,
     forkBytes |-> NilBytes, root |-> NilBytes, err |-> NoError]
NoRet == [val |-> NilBytes, err |-> NoError]

Init ==
    /\ mem = InitMem
    /\ engine = <<>>
    /\ op = [p \in Procs |-> "none"]
    /\ arg = [p \in Procs |-> NoArg]
    /\ pc = [p \in Procs |-> "idle"]
    /\ loc = [p \in Procs |-> NoLoc]
    /\ ret = [p \in Procs |-> NoRet]
    /\ log = [p \in Procs |-> <<>>]

\* engine calls a running call may still make
Pending(p) ==
    CASE pc[p] \in {"cd_resolve", "cd_root", "fdr", "csr_container"} -> 1
      [] pc[p] = "csr_object" -> 2
      [] OTHER -> 0

RECURSIVE SumPending(_)
SumPending(S) ==
    IF S = {} THEN 0
    ELSE LET p == CHOOSE q \in S : TRUE IN Pending(p) + SumPending(S \ {p})

\* a call starts while the engine has room for the inputs it will hash
Room(n) == Cardinality(DOMAIN engine) + SumPending(Procs) + n <= MaxEngineInputs

\* how many of the inputs the engine has not been asked about
New(inputs) == Cardinality(inputs \ DOMAIN engine)

Begin(p, o, a, at) ==
    /\ pc[p] = "idle"
    /\ op' = [op EXCEPT ![p] = o]
    /\ arg' = [arg EXCEPT ![p] = a]
    /\ pc' = [pc EXCEPT ![p] = at]
    /\ UNCHANGED <<mem, engine, loc, ret, log>>

Return(p, r) ==
    /\ ret' = [ret EXCEPT ![p] = r]
    /\ pc' = [pc EXCEPT ![p] = "done"]
    /\ loc' = [loc EXCEPT ![p] = NoLoc]

----------------------------------------------------------------------------
(* computeForkDataRoot *)

\* lines 93-100, given what ssz.HashTreeRoot returned
computeForkDataRoot(out) ==
    IF out.err # NoError
    THEN [val |-> ZeroRoot, err |-> out.err]
    ELSE [val |-> out.root, err |-> NoError]

Call_computeForkDataRoot(p) ==
    \E version \in ForkVersionArgs \ {NIL}, root \in GenesisRootArgs \ {NIL} :
        /\ Room(New({ForkData(Bytes(version), Bytes(root))}))
        /\ Begin(p, "computeForkDataRoot",
                 [NoArg EXCEPT !.forkVersion = version,
                               !.genesisValidatorsRoot = root], "fdr")

FDR_Hash(p) ==
    /\ pc[p] = "fdr"
    /\ LET input == ForkData(Bytes(arg[p].forkVersion),
                             Bytes(arg[p].genesisValidatorsRoot))
       IN \E out \in HashTreeRoot(input) :
            /\ engine' = Learn(input, out)
            /\ log' = [log EXCEPT ![p] = Append(@, input)]
            /\ Return(p, computeForkDataRoot(out))
    /\ UNCHANGED <<mem, op, arg>>

----------------------------------------------------------------------------
(* ComputeDomain *)

\* domain with forkDataRoot[4:] in place of forkDataRoot[:28]
domain_From4(domainType, forkDataRoot) ==
    SubSeq(domainType, 1, DomainByteLength)
        \o SubSeq(forkDataRoot, DomainByteLength + 1, RootLength)

\* domain with the whole fork-data root appended
domain_Untruncated(domainType, forkDataRoot) ==
    SubSeq(domainType, 1, DomainByteLength) \o forkDataRoot

\* domain with forkDataRoot[28:] in place of forkDataRoot[:28]
domain_From28(domainType, forkDataRoot) ==
    SubSeq(domainType, 1, DomainByteLength)
        \o SubSeq(forkDataRoot, DomainRootBytes + 1, RootLength)

\* lines 72-77
domain(domainType, forkDataRoot) ==
    SubSeq(domainType, 1, DomainByteLength)
        \o SubSeq(forkDataRoot, 1, DomainRootBytes)

Call_ComputeDomain(p) ==
    \E t \in DomainTypes, fv \in ForkVersionArgs, gvr \in GenesisRootArgs :
        /\ Room(New({ForkData(
                        Bytes(IF fv = NIL THEN "GenesisForkVersion" ELSE fv),
                        Bytes(IF gvr = NIL THEN "ZeroHash" ELSE gvr))}))
        /\ Begin(p, "ComputeDomain",
                 [NoArg EXCEPT !.domainType = t, !.forkVersion = fv,
                               !.genesisValidatorsRoot = gvr], "cd_resolve")

\* CD_Resolve without lines 54-56: a nil fork version stays nil
CD_Resolve_NoVersionDefault(p) ==
    /\ pc[p] = "cd_resolve"
    /\ loc' = [loc EXCEPT ![p].forkVersion = arg[p].forkVersion,
                          ![p].genesisValidatorsRoot =
                                IF arg[p].genesisValidatorsRoot = NIL
                                THEN "ZeroHash" ELSE arg[p].genesisValidatorsRoot,
                          ![p].forkBytes =
                                copy(Rep(0, ForkVersionByteLength),
                                     Bytes(arg[p].forkVersion))]
    /\ pc' = [pc EXCEPT ![p] = "cd_root"]
    /\ UNCHANGED <<mem, engine, op, arg, ret, log>>

\* CD_Resolve with line 55 the wrong way round: a supplied fork version
\* becomes the configuration's default
CD_Resolve_StoresDefault(p) ==
    /\ pc[p] = "cd_resolve"
    /\ LET genesisValidatorsRoot ==
                          IF arg[p].genesisValidatorsRoot = NIL
                          THEN "ZeroHash" ELSE arg[p].genesisValidatorsRoot
       IN /\ mem' = IF arg[p].forkVersion = NIL THEN mem
                    ELSE [mem EXCEPT !["GenesisForkVersion"] =
                                        mem[arg[p].forkVersion]]
          /\ loc' = [loc EXCEPT ![p].forkVersion = "GenesisForkVersion",
                                ![p].genesisValidatorsRoot = genesisValidatorsRoot,
                                ![p].forkBytes =
                                    copy(Rep(0, ForkVersionByteLength),
                                         mem'["GenesisForkVersion"])]
    /\ pc' = [pc EXCEPT ![p] = "cd_root"]
    /\ UNCHANGED <<engine, op, arg, ret, log>>

\* lines 54-61: the defaults, and the copy into forkBytes
CD_Resolve(p) ==
    /\ pc[p] = "cd_resolve"
    /\ LET forkVersion == IF arg[p].forkVersion = NIL
                          THEN "GenesisForkVersion" ELSE arg[p].forkVersion
           genesisValidatorsRoot ==
                          IF arg[p].genesisValidatorsRoot = NIL
                          THEN "ZeroHash" ELSE arg[p].genesisValidatorsRoot
       IN loc' = [loc EXCEPT ![p].forkVersion = forkVersion,
                             ![p].genesisValidatorsRoot = genesisValidatorsRoot,
                             ![p].forkBytes =
                                copy(Rep(0, ForkVersionByteLength), Bytes(forkVersion))]
    /\ pc' = [pc EXCEPT ![p] = "cd_root"]
    /\ UNCHANGED <<mem, engine, op, arg, ret, log>>

\* lines 63-68
CD_ForkDataRoot(p) ==
    /\ pc[p] = "cd_root"
    /\ LET input == ForkData(Bytes(loc[p].forkVersion),
                             Bytes(loc[p].genesisValidatorsRoot))
       IN \E out \in HashTreeRoot(input) :
            LET r == computeForkDataRoot(out)
            IN /\ engine' = Learn(input, out)
               /\ log' = [log EXCEPT ![p] = Append(@, input)]
               /\ IF r.err # NoError
                  THEN Return(p, [val |-> NilBytes, err |-> r.err])
                  ELSE Return(p, [val |-> domain(arg[p].domainType, r.val),
                                  err |-> NoError])
    /\ UNCHANGED <<mem, op, arg>>

----------------------------------------------------------------------------
(* ComputeSigningRoot *)

Call_ComputeSigningRoot(p) ==
    \E object \in Objects, dom \in DomainArgs :
        /\ Room(IF ~Known(ObjectInput(object)) THEN 2
                ELSE IF engine[ObjectInput(object)].err # NoError THEN 0
                ELSE New({SigningRoot(engine[ObjectInput(object)].root, Bytes(dom))}))
        /\ Begin(p, "ComputeSigningRoot",
                 [NoArg EXCEPT !.object = object, !.domain = dom], "csr_object")

\* CSR_HashObject without lines 30-32: the error of the first hash is dropped
CSR_HashObject_IgnoresError(p) ==
    /\ pc[p] = "csr_object"
    /\ LET input == ObjectInput(arg[p].object)
       IN \E out \in HashTreeRoot(input) :
            /\ engine' = Learn(input, out)
            /\ log' = [log EXCEPT ![p] = Append(@, input)]
            /\ loc' = [loc EXCEPT ![p].root = out.root]
            /\ pc' = [pc EXCEPT ![p] = "csr_container"]
            /\ ret' = ret
    /\ UNCHANGED <<mem, op, arg>>

\* CSR_HashObject hashing the object together with the domain
CSR_HashObject_WithDomain(p) ==
    /\ pc[p] = "csr_object"
    /\ LET input == ObjectInput(arg[p].object \o Bytes(arg[p].domain))
       IN \E out \in HashTreeRoot(input) :
            /\ engine' = Learn(input, out)
            /\ log' = [log EXCEPT ![p] = Append(@, input)]
            /\ IF out.err # NoError
               THEN Return(p, [val |-> ZeroRoot, err |-> out.err])
               ELSE /\ loc' = [loc EXCEPT ![p].root = out.root]
                    /\ pc' = [pc EXCEPT ![p] = "csr_container"]
                    /\ ret' = ret
    /\ UNCHANGED <<mem, op, arg>>

\* lines 29-32
CSR_HashObject(p) ==
    /\ pc[p] = "csr_object"
    /\ LET input == ObjectInput(arg[p].object)
       IN \E out \in HashTreeRoot(input) :
            /\ engine' = Learn(input, out)
            /\ log' = [log EXCEPT ![p] = Append(@, input)]
            /\ IF out.err # NoError
               THEN Return(p, [val |-> ZeroRoot, err |-> out.err])
               ELSE /\ loc' = [loc EXCEPT ![p].root = out.root]
                    /\ pc' = [pc EXCEPT ![p] = "csr_container"]
                    /\ ret' = ret
    /\ UNCHANGED <<mem, op, arg>>

\* CSR_HashContainer with the two fields of the container exchanged
CSR_HashContainer_Swapped(p) ==
    /\ pc[p] = "csr_container"
    /\ LET input == SigningRoot(Bytes(arg[p].domain), loc[p].root)
       IN \E out \in HashTreeRoot(input) :
            /\ engine' = Learn(input, out)
            /\ log' = [log EXCEPT ![p] = Append(@, input)]
            /\ Return(p, [val |-> out.root, err |-> out.err])
    /\ UNCHANGED <<mem, op, arg>>

\* CSR_HashContainer building the container in the caller's domain slice:
\* the object root overwrites the domain
CSR_HashContainer_InPlace(p) ==
    /\ pc[p] = "csr_container"
    /\ LET input == SigningRoot(loc[p].root, Bytes(arg[p].domain))
       IN \E out \in HashTreeRoot(input) :
            /\ engine' = Learn(input, out)
            /\ log' = [log EXCEPT ![p] = Append(@, input)]
            /\ Return(p, [val |-> out.root, err |-> out.err])
    /\ mem' = [mem EXCEPT ![arg[p].domain] = copy(@, loc[p].root)]
    /\ UNCHANGED <<op, arg>>

\* lines 33-37
CSR_HashContainer(p) ==
    /\ pc[p] = "csr_container"
    /\ LET input == SigningRoot(loc[p].root, Bytes(arg[p].domain))
       IN \E out \in HashTreeRoot(input) :
            /\ engine' = Learn(input, out)
            /\ log' = [log EXCEPT ![p] = Append(@, input)]
            /\ Return(p, [val |-> out.root, err |-> out.err])
    /\ UNCHANGED <<mem, op, arg>>

----------------------------------------------------------------------------

\* the caller takes the result
Release(p) ==
    /\ pc[p] = "done"
    /\ pc' = [pc EXCEPT ![p] = "idle"]
    /\ op' = [op EXCEPT ![p] = "none"]
    /\ arg' = [arg EXCEPT ![p] = NoArg]
    /\ ret' = [ret EXCEPT ![p] = NoRet]
    /\ log' = [log EXCEPT ![p] = <<>>]
    /\ UNCHANGED <<mem, engine, loc>>

Next ==
    \E p \in Procs :
        \/ Call_computeForkDataRoot(p)
        \/ FDR_Hash(p)
        \/ Call_ComputeDomain(p)
        \/ CD_Resolve(p)
        \/ CD_ForkDataRoot(p)
        \/ Call_ComputeSigningRoot(p)
        \/ CSR_HashObject(p)
        \/ CSR_HashContainer(p)
        \/ Release(p)

Spec == Init /\ [][Next]_vars

----------------------------------------------------------------------------
(* Properties of ComputeDomain *)

Done(p) == pc[p] = "done"
DoneDomain(p) == Done(p) /\ op[p] = "ComputeDomain"
DomainOk(p) == DoneDomain(p) /\ ret[p].err = NoError

\* the bytes of the fork version and genesis root a ComputeDomain call is
\* about: the caller's, or the default of an absent one
ResolvedVersion(p) ==
    IF arg[p].forkVersion = NIL
    THEN InitMem["GenesisForkVersion"] ELSE InitMem[arg[p].forkVersion]
ResolvedGenesisRoot(p) ==
    IF arg[p].genesisValidatorsRoot = NIL
    THEN InitMem["ZeroHash"] ELSE InitMem[arg[p].genesisValidatorsRoot]
ResolvedForkData(p) == ForkData(ResolvedVersion(p), ResolvedGenesisRoot(p))

\* the fork-data root a finished ComputeDomain call got from the engine
ForkDataRootOf(p) == engine[log[p][1]].root

\* C1: when the fork-data hash succeeds, ComputeDomain returns domainType[0:4]
\* followed by bytes 0..27 of the fork-data root of the resolved fork version
\* and genesis root; bytes 28..31 of that root do not influence the result.
C1_DomainBytes ==
    /\ \A p \in Procs :
        DoneDomain(p) =>
            /\ log[p] = <<ResolvedForkData(p)>>
            /\ Known(ResolvedForkData(p))
            /\ engine[ResolvedForkData(p)].err = NoError =>
                  ret[p] = [val |-> SubSeq(arg[p].domainType, 1, 4)
                                    \o SubSeq(engine[ResolvedForkData(p)].root, 1, 28),
                            err |-> NoError]
    /\ \A p, q \in Procs :
        /\ DomainOk(p) /\ DomainOk(q)
        /\ arg[p].domainType = arg[q].domainType
        /\ \A i \in 1..28 : ForkDataRootOf(p)[i] = ForkDataRootOf(q)[i]
        => ret[p].val = ret[q].val

\* two finished calls whose fork-data roots differ, in the last 4 bytes only
C1_Witness ==
    \E p, q \in Procs :
        /\ DomainOk(p) /\ DomainOk(q)
        /\ arg[p].domainType = arg[q].domainType
        /\ ForkDataRootOf(p) # ForkDataRootOf(q)
        /\ \A i \in 1..28 : ForkDataRootOf(p)[i] = ForkDataRootOf(q)[i]
        /\ ret[p].val = ret[q].val

\* C2 as stated: for all inputs the byte sequence ComputeDomain returns is 32
\* bytes long and starts with the supplied domainType.
C2_ShapeForAllInputs ==
    \A p \in Procs :
        DoneDomain(p) =>
            /\ Len(ret[p].val) = 32
            /\ SubSeq(ret[p].val, 1, 4) = arg[p].domainType

\* C2 amended: whenever ComputeDomain returns without error the domain is 32
\* bytes long and starts with the supplied domainType; with an error it
\* returns a nil domain.
C2_ShapeOnSuccess ==
    \A p \in Procs :
        DoneDomain(p) =>
            IF ret[p].err = NoError
            THEN /\ Len(ret[p].val) = 32
                 /\ SubSeq(ret[p].val, 1, 4) = arg[p].domainType
            ELSE ret[p].val = NilBytes

\* a successful call with a 3-byte fork version and an absent genesis root
C2_Witness ==
    \E p \in Procs :
        /\ DomainOk(p)
        /\ arg[p].domainType = TypeB
        /\ arg[p].forkVersion = "fvShort"
        /\ arg[p].genesisValidatorsRoot = NIL
        /\ Len(ret[p].val) = 32

\* the slice a fork version or genesis root argument stands for
VersionSlice(p) ==
    IF arg[p].forkVersion = NIL THEN "GenesisForkVersion" ELSE arg[p].forkVersion
GenesisRootSlice(p) ==
    IF arg[p].genesisValidatorsRoot = NIL
    THEN "ZeroHash" ELSE arg[p].genesisValidatorsRoot

\* C3: ComputeDomain(t, absent, absent) returns what ComputeDomain(t,
\* GenesisForkVersion, ZeroHash) returns; each absent argument is replaced by
\* its default before the fork-data record is hashed, whatever the other is.
C3_DefaultEquivalence ==
    /\ \A p \in Procs :
        DoneDomain(p) =>
            /\ Len(log[p]) = 1
            /\ arg[p].forkVersion = NIL =>
                  log[p][1][2] = InitMem["GenesisForkVersion"]
            /\ arg[p].genesisValidatorsRoot = NIL =>
                  log[p][1][3] = InitMem["ZeroHash"]
    /\ \A p, q \in Procs :
        /\ DoneDomain(p) /\ DoneDomain(q)
        /\ arg[p].domainType = arg[q].domainType
        /\ VersionSlice(p) = VersionSlice(q)
        /\ GenesisRootSlice(p) = GenesisRootSlice(q)
        => ret[p] = ret[q] /\ log[p] = log[q]

\* ComputeDomain(t, nil, nil) and ComputeDomain(t, GenesisForkVersion, ZeroHash)
C3_Witness ==
    \E p, q \in Procs :
        /\ DomainOk(p) /\ DomainOk(q)
        /\ arg[p].domainType = arg[q].domainType
        /\ arg[p].forkVersion = NIL /\ arg[p].genesisValidatorsRoot = NIL
        /\ arg[q].forkVersion = "GenesisForkVersion"
        /\ arg[q].genesisValidatorsRoot = "ZeroHash"
        /\ ret[p] = ret[q]

\* C7 as stated: for a fixed domainType, calls whose resolved fork version or
\* genesis root differ return different domains.
C7_Sensitivity ==
    \A p, q \in Procs :
        /\ DomainOk(p) /\ DomainOk(q)
        /\ arg[p].domainType = arg[q].domainType
        /\ ResolvedForkData(p) # ResolvedForkData(q)
        => ret[p].val # ret[q].val

\* C7 amended: for a fixed domainType, two successful calls return different
\* domains exactly when their fork-data roots differ within bytes 0..27.
C7_DiffersWithRootPrefix ==
    \A p, q \in Procs :
        /\ DomainOk(p) /\ DomainOk(q)
        /\ arg[p].domainType = arg[q].domainType
        => (ret[p].val # ret[q].val
              <=> \E i \in 1..28 : ForkDataRootOf(p)[i] # ForkDataRootOf(q)[i])

\* two calls with different fork versions whose domains differ
C7_Witness ==
    \E p, q \in Procs :
        /\ DomainOk(p) /\ DomainOk(q)
        /\ arg[p].domainType = arg[q].domainType
        /\ ResolvedVersion(p) # ResolvedVersion(q)
        /\ \E i \in 1..28 : ForkDataRootOf(p)[i] # ForkDataRootOf(q)[i]
        /\ ret[p].val # ret[q].val

\* C10: the fork-data record ComputeDomain hands to the engine has a
\* currentVersion of exactly 4 bytes and a genesisValidatorsRoot of exactly 32
\* bytes, whatever the caller supplies.
C10_FixedSizeRecord ==
    \A p \in Procs :
        op[p] = "ComputeDomain" =>
            \A i \in 1..Len(log[p]) :
                /\ Len(log[p][i][2]) = ForkVersionByteLength
                /\ Len(log[p][i][3]) = RootLength

----------------------------------------------------------------------------
(* Properties of ComputeSigningRoot *)

DoneSigning(p) == Done(p) /\ op[p] = "ComputeSigningRoot"

\* C4: when the engine can hash the object, ComputeSigningRoot(object, domain)
\* is the hash-tree-root of the record {objectRoot: hashTreeRoot(object),
\* domain: the caller's domain, unmodified}; the engine is called exactly
\* twice, on the object and then on the record.
C4_SigningRoot ==
    \A p \in Procs :
        DoneSigning(p) =>
            LET o == ObjectInput(arg[p].object)
            IN /\ Known(o)
               /\ engine[o].err = NoError =>
                    LET record == SigningRoot(engine[o].root, InitMem[arg[p].domain])
                    IN /\ log[p] = <<o, record>>
                       /\ Known(record)
                       /\ ret[p] = [val |-> engine[record].root,
                                    err |-> engine[record].err]

\* a finished call on the 2-byte domain, both hashes without error
C4_Witness ==
    \E p \in Procs :
        /\ DoneSigning(p)
        /\ arg[p].domain = "domShort"
        /\ Len(log[p]) = 2
        /\ log[p][2][3] = <<9, 9>>
        /\ ret[p].err = NoError
        /\ ret[p].val \in ContainerRoots

\* the result a call returns with an error
EmptyResult(p) == IF op[p] = "ComputeDomain" THEN NilBytes ELSE ZeroRoot

ObjectRootUsed(p) ==
    IF Len(log[p]) = 2 THEN log[p][2][2]
    ELSE IF pc[p] = "csr_container" THEN loc[p].root
    ELSE NilBytes
FailedAtObject(p) == Done(p) /\ Len(log[p]) = 1 /\ ret[p].err # NoError

\* C8: the objectRoot placed in the record, and whether hashing the object
\* fails, depend on the object alone: calls on the same object with any two
\* domains hash the same first input and use the same objectRoot.
C8_Independence ==
    \A p, q \in Procs :
        /\ op[p] = "ComputeSigningRoot" /\ op[q] = "ComputeSigningRoot"
        /\ arg[p].object = arg[q].object
        /\ Len(log[p]) >= 1 /\ Len(log[q]) >= 1
        => /\ log[p][1] = ObjectInput(arg[p].object)
           /\ log[p][1] = log[q][1]
           /\ ObjectRootUsed(p) = ObjectRootUsed(q)
           /\ FailedAtObject(p) <=> FailedAtObject(q)

\* the same object signed for two domains: one objectRoot, two signing roots
C8_Witness ==
    \E p, q \in Procs :
        /\ DoneSigning(p) /\ DoneSigning(q)
        /\ arg[p].object = arg[q].object
        /\ arg[p].domain # arg[q].domain
        /\ Len(log[p]) = 2 /\ Len(log[q]) = 2
        /\ ObjectRootUsed(p) = ObjectRootUsed(q)
        /\ ret[p].err = NoError /\ ret[q].err = NoError
        /\ ret[p].val # ret[q].val

----------------------------------------------------------------------------
(* Properties of all three operations *)

\* a slice argument as the callee sees it: absent, or its bytes
SliceValue(s) == IF s = NIL THEN <<"absent">> ELSE <<"bytes", InitMem[s]>>

\* the inputs of a call, by value
Inputs(p) ==
    <<op[p], arg[p].domainType, SliceValue(arg[p].forkVersion),
      SliceValue(arg[p].genesisValidatorsRoot), arg[p].object,
      SliceValue(arg[p].domain)>>

\* C6: two calls of the same operation with identical inputs, made at any
\* points of any sequence of calls, have identical outcomes: the same bytes on
\* success, the same error on failure.
C6_Determinism ==
    \A p, q \in Procs :
        Done(p) /\ Done(q) /\ Inputs(p) = Inputs(q) => ret[p] = ret[q]

\* two finished calls with the same inputs, other calls having been made
C6_Witness ==
    \E p, q \in Procs :
        /\ p # q
        /\ Done(p) /\ Done(q)
        /\ Inputs(p) = Inputs(q)
        /\ Cardinality(DOMAIN engine) >= 2
        /\ ret[p] = ret[q]

Unknown == [val |-> NilBytes, err |-> "engine not asked"]

\* what the engine says of an input, once it has been asked
Ask(input) ==
    IF Known(input) THEN engine[input] ELSE [root |-> NilBytes, err |-> "engine not asked"]

\* the result of a call run alone on the initial heap
RunAlone(p) ==
    CASE op[p] = "ComputeDomain" ->
            LET out == Ask(ResolvedForkData(p))
            IN IF out.err # NoError THEN [val |-> NilBytes, err |-> out.err]
               ELSE [val |-> SubSeq(arg[p].domainType, 1, 4) \o SubSeq(out.root, 1, 28),
                     err |-> NoError]
      [] op[p] = "computeForkDataRoot" ->
            LET out == Ask(ForkData(InitMem[arg[p].forkVersion],
                                    InitMem[arg[p].genesisValidatorsRoot]))
            IN [val |-> IF out.err # NoError THEN ZeroRoot ELSE out.root,
                err |-> out.err]
      [] op[p] = "ComputeSigningRoot" ->
            LET o == Ask(ObjectInput(arg[p].object))
            IN IF o.err # NoError THEN [val |-> ZeroRoot, err |-> o.err]
               ELSE LET out == Ask(SigningRoot(o.root, InitMem[arg[p].domain]))
                    IN [val |-> out.root, err |-> out.err]

\* C9: with calls of ComputeDomain and ComputeSigningRoot interleaved in any
\* order, each call returns what it returns when run alone, and no call
\* writes the callers' slices or the configuration defaults.
C9_ConcurrencySafe ==
    /\ mem = InitMem
    /\ \A p \in Procs : Done(p) => ret[p] = RunAlone(p)

\* a ComputeSigningRoot call between its two hashes while a ComputeDomain call
\* is between resolving its arguments and hashing
C9_Witness ==
    \E p, q \in Procs :
        /\ pc[p] = "csr_container"
        /\ pc[q] = "cd_root"
        /\ mem = InitMem

====
